---- MODULE Spec2Model ----
(***************************************************************************)
(* Model of the BootcampsAPI controllers.                                  *)
(*                                                                         *)
(*   controllers/auth.js       register, login, getMe, forgotPassword,     *)
(*                             resetPassword, sendTokenResponse            *)
(*   controllers/bootcamps.js  createBootcamp, updateBootcamp,             *)
(*                             deleteBootcamp, bootcampPhotoUpload         *)
(*                                                                         *)
(* Every handler is an async function: it runs until its next await, and   *)
(* other requests run while it waits.  A handler is therefore a sequence   *)
(* of steps, one per store operation or external call it awaits, and the   *)
(* steps of concurrent requests interleave.  Requests occupy slots; a slot *)
(* keeps the finished request's outcome until it is recycled.              *)
(***************************************************************************)
EXTENDS Integers, Sequences, FiniteSets

\* ---------------------------------------------------------------- bounds
NumSlots == 2       \* concurrent requests in flight
NumEmails == 2      \* e-mail addresses (a user's identity is its e-mail)
NumPasswords == 2   \* plaintext passwords
MaxTokens == 2      \* reset tokens crypto.randomBytes can hand out in a run
MaxTime == 2        \* the clock stops here
NumPublishers == 2  \* bootcamp users with the publisher role (user 0 is the admin)
MaxBootcamps == 2   \* bootcamp documents ever created
NumNames == 2       \* values of a bootcamp's name field

Slots == 1..NumSlots
Emails == 1..NumEmails
Passwords == 1..NumPasswords
Tokens == 1..MaxTokens
BcUsers == 0..NumPublishers
BcIds == 1..MaxBootcamps
Names == 1..NumNames

\* undefined / missing (a field that was never set, or set to undefined)
Absent == -1

\* The reset token's lifetime, in clock ticks of five minutes.
ResetExpire == 2

VARIABLES
    users,      \* the User collection: e-mail -> record
    now,        \* Date.now()
    req,        \* auth requests: slot -> the handler's position and locals
    nextTok,    \* the next value crypto.randomBytes returns (never repeats)
    stored,     \* history: tokens whose hash a forgotPassword has saved
    mailed,     \* history: tokens whose mail was sent
    rolled,     \* history: tokens rolled back after a mail failure
    consumed,   \* history: tokens a resetPassword has succeeded with
    bootcamps,  \* the Bootcamp collection: id -> record
    breq,       \* bootcamp requests: slot -> position and locals
    nextId      \* the next bootcamp _id

authVars == <<users, now, req, nextTok, stored, mailed, rolled, consumed>>
bcVars == <<bootcamps, breq, nextId>>
vars == <<users, now, req, nextTok, stored, mailed, rolled, consumed,
          bootcamps, breq, nextId>>

\* ------------------------------------------------------- model helpers
\* sha256 of the reset token: deterministic, unsalted, injective on Tokens.
Hash(t) == (7 * t + 3) % 11

\* bcrypt of the password, as the User model's pre-save hook stores it.
HashPw(p) == 100 + p

\* user.matchPassword(entered): bcrypt.compare against the stored hash.
MatchPassword(stored_pw, entered) == stored_pw = HashPw(entered)

NoUser == [exists |-> FALSE, password |-> Absent, rpt |-> Absent, rpe |-> Absent]

\* A User document as User.create stores it: no reset fields.
NewUser(pw) == [exists |-> TRUE, password |-> HashPw(pw), rpt |-> Absent, rpe |-> Absent]

\* res.status(s).json(...) (with .cookie(...) when cookie is TRUE)
Json(status, data, cookie) ==
    [kind |-> "json", status |-> status, data |-> data, cookie |-> cookie]

\* next(new ErrorResponse(message, status))
Err(message, status) ==
    [kind |-> "next", status |-> status, data |-> message, cookie |-> FALSE]

\* sendTokenResponse(user, 200, res)
sendTokenResponse == Json(200, "token", TRUE)

\* note is a history field of resetPassword: what was true of the presented
\* token when the lookup ran.
\* exp is the resetPasswordExpire of forgotPassword's document in memory,
\* between getResetPasswordToken and the save.
Idle == [op |-> "none", pc |-> "idle", email |-> 0, pw |-> 0, tok |-> 0,
         dpw |-> 0, exp |-> Absent, note |-> {}, out |-> <<>>]

\* The positions at which a handler has returned.
Finals == {"register_ok", "register_dup", "login_missing", "login_nouser",
           "login_badpw", "login_ok", "me_ok", "fp_nouser", "fp_ok",
           "fp_mailerr", "rp_invalid", "rp_ok"}

\* A finished request keeps its outcome (and the reset token it was about);
\* its other locals are dead.
Finish(r, pc, ev) ==
    [req EXCEPT ![r] = [Idle EXCEPT !.op = req[r].op, !.pc = pc,
                                    !.tok = req[r].tok, !.out = req[r].out \o ev]]

authHist == <<stored, mailed, rolled, consumed>>

\* ------------------------------------------------------------- register
\* User.create then sendTokenResponse; a duplicate e-mail makes create
\* reject, which asyncHandler hands to next.
Register(r) ==
    /\ req[r].pc = "idle"
    /\ \E e \in Emails, p \in Passwords :
        IF users[e].exists
        THEN /\ req' = [req EXCEPT ![r] = [Idle EXCEPT !.op = "register",
                            !.pc = "register_dup",
                            !.out = <<Err("creation failure", 400)>>]]
             /\ users' = users
        ELSE /\ users' = [users EXCEPT ![e] = NewUser(p)]
             /\ req' = [req EXCEPT ![r] = [Idle EXCEPT !.op = "register",
                            !.pc = "register_ok",
                            !.out = <<sendTokenResponse>>]]
    /\ UNCHANGED <<now, nextTok, authHist, bcVars>>

\* ---------------------------------------------------------------- login
\* Lines 28-40: validate, then User.findOne({email}).select('+password').
\* 0 stands for a missing (falsy) e-mail or password.
LoginFind(r) ==
    /\ req[r].pc = "idle"
    /\ \E e \in Emails \cup {0}, p \in Passwords \cup {0} :
        LET base == [Idle EXCEPT !.op = "login"] IN
        IF e = 0 \/ p = 0
        THEN req' = [req EXCEPT ![r] = [base EXCEPT !.pc = "login_missing",
                        !.out = <<Err("Please provide a email and password", 400)>>]]
        ELSE IF ~users[e].exists
        THEN req' = [req EXCEPT ![r] = [base EXCEPT !.pc = "login_nouser",
                        !.out = <<Err("Invalid credentials", 401)>>]]
        ELSE req' = [req EXCEPT ![r] = [base EXCEPT !.pc = "login_found",
                        !.email = e, !.pw = p, !.dpw = users[e].password]]
    /\ UNCHANGED <<users, now, nextTok, authHist, bcVars>>

\* LoginMatch with a message of its own for the wrong password.
LoginMatch_Leaky(r) ==
    /\ req[r].pc = "login_found"
    /\ IF MatchPassword(req[r].dpw, req[r].pw)
       THEN req' = Finish(r, "login_ok", <<sendTokenResponse>>)
       ELSE req' = Finish(r, "login_badpw", <<Err("Incorrect password", 401)>>)
    /\ UNCHANGED <<users, now, nextTok, authHist, bcVars>>

\* Lines 42-49: matchPassword on the loaded document, then respond.
LoginMatch(r) ==
    /\ req[r].pc = "login_found"
    /\ IF MatchPassword(req[r].dpw, req[r].pw)
       THEN req' = Finish(r, "login_ok", <<sendTokenResponse>>)
       ELSE req' = Finish(r, "login_badpw", <<Err("Invalid credentials", 401)>>)
    /\ UNCHANGED <<users, now, nextTok, authHist, bcVars>>

\* ---------------------------------------------------------------- getMe
\* findById(req.user.id), then 200 with the user (null when there is none).
GetMe(r) ==
    /\ req[r].pc = "idle"
    /\ \E e \in Emails :
        req' = [req EXCEPT ![r] = [Idle EXCEPT !.op = "getMe", !.pc = "me_ok",
                    !.out = <<Json(200, "user", FALSE)>>]]
    /\ UNCHANGED <<users, now, nextTok, authHist, bcVars>>

\* ------------------------------------------------------- forgotPassword
\* Lines 68-77: look the user up by e-mail.
FPFind(r) ==
    /\ req[r].pc = "idle"
    /\ \E e \in Emails :
        LET base == [Idle EXCEPT !.op = "forgotPassword"] IN
        IF ~users[e].exists
        THEN req' = [req EXCEPT ![r] = [base EXCEPT !.pc = "fp_nouser",
                        !.out = <<Err("There is no user with the email", 404)>>]]
        ELSE req' = [req EXCEPT ![r] = [base EXCEPT !.pc = "fp_found", !.email = e]]
    /\ UNCHANGED <<users, now, nextTok, authHist, bcVars>>

\* getResetPasswordToken, on the document in memory: the hash of the token
\* and an expiry ResetExpire after the clock of the call.
getResetPasswordToken(t, clock) == [rpt |-> Hash(t), rpe |-> clock + ResetExpire]

\* Line 80: draw a fresh random token and set the two fields of the
\* document in memory; the store is not touched.
FPGen(r) ==
    /\ req[r].pc = "fp_found"
    /\ nextTok <= MaxTokens
    /\ req' = [req EXCEPT ![r].pc = "fp_token", ![r].tok = nextTok,
                          ![r].exp = getResetPasswordToken(nextTok, now).rpe]
    /\ nextTok' = nextTok + 1
    /\ UNCHANGED <<users, now, authHist, bcVars>>

\* Line 82: user.save commits the two fields as line 80 set them.
FPSave(r) ==
    /\ req[r].pc = "fp_token"
    /\ users' = [users EXCEPT
            ![req[r].email].rpt = Hash(req[r].tok),
            ![req[r].email].rpe = req[r].exp]
    /\ req' = [req EXCEPT ![r].pc = "fp_saved", ![r].exp = Absent]
    /\ stored' = stored \cup {req[r].tok}
    /\ UNCHANGED <<now, nextTok, mailed, rolled, consumed, bcVars>>

\* FPSendMail moved before the save: the mail goes out for a token the
\* store has not seen.
FPSendMail_BeforeSave(r) ==
    /\ req[r].pc = "fp_token"
    /\ req' = [req EXCEPT ![r].pc = "fp_mailing"]
    /\ UNCHANGED <<users, now, nextTok, authHist, bcVars>>

\* Lines 85-97: build the message and call sendEmail.
FPSendMail(r) ==
    /\ req[r].pc = "fp_saved"
    /\ req' = [req EXCEPT ![r].pc = "fp_mailing"]
    /\ UNCHANGED <<users, now, nextTok, authHist, bcVars>>

\* Lines 99-102 and 113-116: sendEmail resolved; the handler answers inside
\* the try block and, not having returned, answers again after it.
FPMailOk(r) ==
    /\ req[r].pc = "fp_mailing"
    /\ req' = Finish(r, "fp_ok", <<Json(200, "Email sent", FALSE),
                                   Json(200, "user", FALSE)>>)
    /\ mailed' = mailed \cup {req[r].tok}
    /\ UNCHANGED <<users, now, nextTok, stored, rolled, consumed, bcVars>>

\* Lines 103-106: sendEmail rejected; the catch block clears the two fields
\* of the document in memory.
FPMailFail(r) ==
    /\ req[r].pc = "fp_mailing"
    /\ req' = [req EXCEPT ![r].pc = "fp_catch"]
    /\ UNCHANGED <<users, now, nextTok, authHist, bcVars>>

\* FPRollback without the save of line 108.
FPRollback_NoSave(r) ==
    /\ req[r].pc = "fp_catch"
    /\ req' = Finish(r, "fp_mailerr", <<Err("Email could not be sent", 500)>>)
    /\ rolled' = rolled \cup {req[r].tok}
    /\ UNCHANGED <<users, now, nextTok, stored, mailed, consumed, bcVars>>

\* Lines 108-110: save the cleared fields ($unset of both, whatever the
\* store holds by now), then next(500).
FPRollback(r) ==
    /\ req[r].pc = "fp_catch"
    /\ users' = [users EXCEPT ![req[r].email].rpt = Absent,
                              ![req[r].email].rpe = Absent]
    /\ req' = Finish(r, "fp_mailerr", <<Err("Email could not be sent", 500)>>)
    /\ rolled' = rolled \cup {req[r].tok}
    /\ UNCHANGED <<now, nextTok, stored, mailed, consumed, bcVars>>

\* -------------------------------------------------------- resetPassword
\* The filter with $gte in place of $gt.
ResetQueryMatches_Gte(u, h, t) == u.exists /\ u.rpt = h /\ u.rpe >= t

\* The findOne filter of lines 129-132.
ResetQueryMatches(u, h, t) == u.exists /\ u.rpt = h /\ u.rpe > t

\* Lines 124-136: hash the presented token and look a user up.
ResetFind(r) ==
    /\ req[r].pc = "idle"
    /\ \E t \in Tokens, p \in Passwords :
        LET note == (IF t \in consumed THEN {"consumed"} ELSE {})
                     \cup (IF t \in rolled THEN {"rolled"} ELSE {})
                     \cup (IF \E e \in Emails : /\ users[e].rpt = Hash(t)
                                                 /\ users[e].rpe <= now
                           THEN {"expired"} ELSE {})
            base == [Idle EXCEPT !.op = "resetPassword", !.tok = t, !.note = note]
            hits == {e \in Emails : ResetQueryMatches(users[e], Hash(t), now)}
        IN  IF hits = {}
            THEN req' = [req EXCEPT ![r] = [base EXCEPT !.pc = "rp_invalid",
                            !.out = <<Err("Invalid Token", 400)>>]]
            ELSE \E e \in hits :
                    req' = [req EXCEPT ![r] = [base EXCEPT !.pc = "rp_found",
                                !.email = e, !.pw = p]]
    /\ UNCHANGED <<users, now, nextTok, authHist, bcVars>>

\* ResetSave without lines 140-141: the reset fields stay.
ResetSave_KeepToken(r) ==
    /\ req[r].pc = "rp_found"
    /\ users' = [users EXCEPT ![req[r].email].password = HashPw(req[r].pw)]
    /\ req' = Finish(r, "rp_ok", <<sendTokenResponse>>)
    /\ consumed' = consumed \cup {req[r].tok}
    /\ UNCHANGED <<now, nextTok, stored, mailed, rolled, bcVars>>

\* ResetSave without line 141: the expiry stays.
ResetSave_KeepExpire(r) ==
    /\ req[r].pc = "rp_found"
    /\ users' = [users EXCEPT ![req[r].email].password = HashPw(req[r].pw),
                              ![req[r].email].rpt = Absent]
    /\ req' = Finish(r, "rp_ok", <<sendTokenResponse>>)
    /\ consumed' = consumed \cup {req[r].tok}
    /\ UNCHANGED <<now, nextTok, stored, mailed, rolled, bcVars>>

\* Lines 139-144: set the password, clear the reset fields, save, respond.
ResetSave(r) ==
    /\ req[r].pc = "rp_found"
    /\ users' = [users EXCEPT ![req[r].email].password = HashPw(req[r].pw),
                              ![req[r].email].rpt = Absent,
                              ![req[r].email].rpe = Absent]
    /\ req' = Finish(r, "rp_ok", <<sendTokenResponse>>)
    /\ consumed' = consumed \cup {req[r].tok}
    /\ UNCHANGED <<now, nextTok, stored, mailed, rolled, bcVars>>

\* ---------------------------------------------------------- environment
Tick ==
    /\ now < MaxTime
    /\ now' = now + 1
    /\ UNCHANGED <<users, req, nextTok, authHist, bcVars>>

\* The response has gone out; the slot takes the next request.
Recycle(r) ==
    /\ req[r].pc \in Finals
    /\ req' = [req EXCEPT ![r] = Idle]
    /\ UNCHANGED <<users, now, nextTok, authHist, bcVars>>

\* ============================================================ bootcamps
\* req.user, as the protect middleware injects it: id and role.
RoleOf(u) == IF u = 0 THEN "admin" ELSE "publisher"

NoBootcamp == [exists |-> FALSE, user |-> Absent, name |-> Absent, photo |-> Absent]

\* req.body: the fields it carries (Absent: the body has no such field).
\* A photo in the body is a file name of the client's choosing, 0; the
\* upload names a photo after the bootcamp's id.
Bodies == [user : BcUsers \cup {Absent}, name : Names \cup {Absent},
           photo : {0, Absent}]

NoBody == [user |-> Absent, name |-> Absent, photo |-> Absent]

\* The document with the fields of the body written over its own.
ApplyBody(b, body) ==
    [b EXCEPT !.user = IF body.user # Absent THEN body.user ELSE @,
              !.name = IF body.name # Absent THEN body.name ELSE @,
              !.photo = IF body.photo # Absent THEN body.photo ELSE @]

BIdle == [op |-> "none", pc |-> "idle", id |-> 0, body |-> NoBody, out |-> <<>>]

BFinals == {"create_denied", "create_ok", "update_notfound", "update_unauth",
            "update_ok", "delete_notfound", "delete_unauth", "delete_ok",
            "photo_notfound", "photo_unauth", "photo_nofile", "photo_notimage",
            "photo_toobig", "photo_typeerror", "photo_mverr",
            "photo_ok"}

\* A finished request keeps its outcome; its locals are dead.  A request
\* under way keeps the locals its remaining lines read.
BFinish(r, pc, ev) ==
    [breq EXCEPT ![r] = [BIdle EXCEPT !.op = breq[r].op, !.pc = pc,
                                      !.out = breq[r].out \o ev]]

BDone(op, pc, ev) == [BIdle EXCEPT !.op = op, !.pc = pc, !.out = ev]

\* The ownership test of lines 73, 106 and 167.
NotAuthorized(b, u) == b.user # u /\ RoleOf(u) # "admin"

\* Lines 37-50: req.body.user = req.user.id, Bootcamp.findOne({user}) and
\* the one-bootcamp rule.  The body names the bootcamp.
BcCreateFind(r) ==
    /\ breq[r].pc = "idle"
    /\ \E u \in BcUsers, b \in {x \in Bodies : x.name # Absent} :
        LET base == [BIdle EXCEPT !.op = "createBootcamp",
                                  !.body = [b EXCEPT !.user = u]]
            publishedBootcamp == \E i \in BcIds : bootcamps[i].exists /\ bootcamps[i].user = u
        IN  IF publishedBootcamp /\ RoleOf(u) # "admin"
            THEN breq' = [breq EXCEPT ![r] = BDone("createBootcamp", "create_denied",
                            <<Err("The user has already published a bootcamp", 400)>>)]
            ELSE breq' = [breq EXCEPT ![r] = [base EXCEPT !.pc = "create_checked"]]
    /\ UNCHANGED <<bootcamps, nextId, authVars>>

\* Lines 52-57: Bootcamp.create(req.body), then 201.
BcCreate(r) ==
    /\ breq[r].pc = "create_checked"
    /\ nextId <= MaxBootcamps
    /\ bootcamps' = [bootcamps EXCEPT ![nextId] =
            ApplyBody([exists |-> TRUE, user |-> Absent, name |-> Absent,
                       photo |-> Absent], breq[r].body)]
    /\ nextId' = nextId + 1
    /\ breq' = BFinish(r, "create_ok", <<Json(201, "bootcamp", FALSE)>>)
    /\ UNCHANGED authVars

\* Lines 64-80: findById, then the ownership test.
BcUpdateFind(r) ==
    /\ breq[r].pc = "idle"
    /\ \E u \in BcUsers, i \in BcIds, b \in Bodies :
        LET base == [BIdle EXCEPT !.op = "updateBootcamp", !.id = i] IN
        IF ~bootcamps[i].exists
        THEN breq' = [breq EXCEPT ![r] = BDone(base.op, "update_notfound",
                        <<Err("Bootcamp not found", 404)>>)]
        ELSE IF NotAuthorized(bootcamps[i], u)
        THEN breq' = [breq EXCEPT ![r] = BDone(base.op, "update_unauth",
                        <<Err("User is not authorized to update this bootcamp", 401)>>)]
        ELSE breq' = [breq EXCEPT ![r] = [base EXCEPT !.pc = "update_checked",
                        !.body = b]]
    /\ UNCHANGED <<bootcamps, nextId, authVars>>

\* Lines 82-90: findByIdAndUpdate(id, req.body), then 200 (with null when
\* the bootcamp has gone in the meantime).  Every field of the body is
\* written, the owner included.
BcUpdateWrite(r) ==
    /\ breq[r].pc = "update_checked"
    /\ bootcamps' = IF bootcamps[breq[r].id].exists
                    THEN [bootcamps EXCEPT ![breq[r].id] = ApplyBody(@, breq[r].body)]
                    ELSE bootcamps
    /\ breq' = BFinish(r, "update_ok", <<Json(200, "bootcamp", FALSE)>>)
    /\ UNCHANGED <<nextId, authVars>>

\* Lines 97-120: findByIdAndDelete first, the ownership test after it;
\* bootcamp.remove() then finds nothing left to remove.
BcDelete(r) ==
    /\ breq[r].pc = "idle"
    /\ \E u \in BcUsers, i \in BcIds :
        LET base == [BIdle EXCEPT !.op = "deleteBootcamp"] IN
        IF ~bootcamps[i].exists
        THEN /\ breq' = [breq EXCEPT ![r] = BDone(base.op, "delete_notfound",
                        <<Err("Bootcamp not found", 404)>>)]
             /\ bootcamps' = bootcamps
        ELSE /\ bootcamps' = [bootcamps EXCEPT ![i] = NoBootcamp]
             /\ IF NotAuthorized(bootcamps[i], u)
                THEN breq' = [breq EXCEPT ![r] = BDone(base.op, "delete_unauth",
                        <<Err("User is not authorized to delete this bootcamp", 401)>>)]
                ELSE breq' = [breq EXCEPT ![r] = BDone(base.op, "delete_ok",
                        <<Json(200, "empty", FALSE)>>)]
    /\ UNCHANGED <<nextId, authVars>>

\* req.files: whether files came with the request, whether one of them is
\* under the key 'file', whether its mimetype starts with 'image', whether
\* its size exceeds MAX_FILE_UPLOAD.
Uploads == [present : BOOLEAN, keyed : BOOLEAN, image : BOOLEAN, big : BOOLEAN]

\* Lines 158-200: findById, the ownership test, the checks of the uploaded
\* file, then file.mv.
BcPhotoFind(r) ==
    /\ breq[r].pc = "idle"
    /\ \E u \in BcUsers, i \in BcIds, file \in Uploads :
        LET base == [BIdle EXCEPT !.op = "bootcampPhotoUpload", !.id = i] IN
        IF ~bootcamps[i].exists
        THEN breq' = [breq EXCEPT ![r] = BDone(base.op, "photo_notfound",
                        <<Err("Bootcamp not found", 404)>>)]
        ELSE IF NotAuthorized(bootcamps[i], u)
        THEN breq' = [breq EXCEPT ![r] = BDone(base.op, "photo_unauth",
                        <<Err("User is not authorized to update this bootcamp", 401)>>)]
        ELSE IF ~file.present
        THEN breq' = [breq EXCEPT ![r] = BDone(base.op, "photo_nofile",
                        <<Err("Please upload a file", 400)>>)]
        ELSE IF ~file.keyed
        THEN \* req.files.file is undefined: file.mimetype throws, and
             \* asyncHandler hands the TypeError, which has no status, to next
             breq' = [breq EXCEPT ![r] = BDone(base.op, "photo_typeerror",
                        <<Err("Cannot read properties of undefined (reading 'mimetype')", Absent)>>)]
        ELSE IF ~file.image
        THEN breq' = [breq EXCEPT ![r] = BDone(base.op, "photo_notimage",
                        <<Err("Please upload a image file", 400)>>)]
        ELSE IF file.big
        THEN breq' = [breq EXCEPT ![r] = BDone(base.op, "photo_toobig",
                        <<Err("Please upload a image less than MAX_FILE_UPLOAD", 400)>>)]
        ELSE breq' = [breq EXCEPT ![r] = [base EXCEPT !.pc = "photo_moving"]]
    /\ UNCHANGED <<bootcamps, nextId, authVars>>

\* Lines 201-204: file.mv called back with an error.
BcPhotoMvFail(r) ==
    /\ breq[r].pc = "photo_moving"
    /\ breq' = BFinish(r, "photo_mverr", <<Err("Problem with file upload", 500)>>)
    /\ UNCHANGED <<bootcamps, nextId, authVars>>

\* Lines 206-211: findByIdAndUpdate(id, {photo}), then 200.
BcPhotoMvOk(r) ==
    /\ breq[r].pc = "photo_moving"
    /\ bootcamps' = IF bootcamps[breq[r].id].exists
                    THEN [bootcamps EXCEPT ![breq[r].id].photo = breq[r].id]
                    ELSE bootcamps
    /\ breq' = BFinish(r, "photo_ok", <<Json(200, "file.name", FALSE)>>)
    /\ UNCHANGED <<nextId, authVars>>

BcRecycle(r) ==
    /\ breq[r].pc \in BFinals
    /\ breq' = [breq EXCEPT ![r] = BIdle]
    /\ UNCHANGED <<bootcamps, nextId, authVars>>


\* =========================================================== composition
InitAuth ==
    /\ users = [e \in Emails |-> IF e = 1 THEN NewUser(1) ELSE NoUser]
    /\ now = 0
    /\ req = [r \in Slots |-> Idle]
    /\ nextTok = 1
    /\ stored = {}
    /\ mailed = {}
    /\ rolled = {}
    /\ consumed = {}

InitBc ==
    /\ bootcamps = [i \in BcIds |-> NoBootcamp]
    /\ breq = [r \in Slots |-> BIdle]
    /\ nextId = 1

Init == InitAuth /\ InitBc

Next ==
    \/ \E r \in Slots : Register(r)
    \/ \E r \in Slots : LoginFind(r)
    \/ \E r \in Slots : LoginMatch(r)
    \/ \E r \in Slots : GetMe(r)
    \/ \E r \in Slots : FPFind(r)
    \/ \E r \in Slots : FPGen(r)
    \/ \E r \in Slots : FPSave(r)
    \/ \E r \in Slots : FPSendMail(r)
    \/ \E r \in Slots : FPMailOk(r)
    \/ \E r \in Slots : FPMailFail(r)
    \/ \E r \in Slots : FPRollback(r)
    \/ \E r \in Slots : ResetFind(r)
    \/ \E r \in Slots : ResetSave(r)
    \/ \E r \in Slots : Recycle(r)
    \/ Tick

\* The auth controller under concurrent requests.
Spec == Init /\ [][Next]_vars

NextBootcamps ==
    \/ \E r \in Slots : BcCreateFind(r)
    \/ \E r \in Slots : BcCreate(r)
    \/ \E r \in Slots : BcUpdateFind(r)
    \/ \E r \in Slots : BcUpdateWrite(r)
    \/ \E r \in Slots : BcDelete(r)
    \/ \E r \in Slots : BcPhotoFind(r)
    \/ \E r \in Slots : BcPhotoMvFail(r)
    \/ \E r \in Slots : BcPhotoMvOk(r)
    \/ \E r \in Slots : BcRecycle(r)

\* The bootcamps controller under concurrent requests.
SpecBootcamps == Init /\ [][NextBootcamps]_vars

\* =============================================================== claims
\* A step in which slot r runs the lookup of resetPassword.
ResetLookup(r) == req[r].pc = "idle" /\ req'[r].op = "resetPassword"

InvalidToken == <<[kind |-> "next", status |-> 400, data |-> "Invalid Token",
                   cookie |-> FALSE]>>

\* C1: once a resetPassword has succeeded with token t, every resetPassword
\* that presents t afterwards ends with the invalid-token error (400),
\* changes no user and issues no session token.
C1_ResetTokenAcceptedOnce ==
    [][\A r \in Slots :
        (ResetLookup(r) /\ req'[r].tok \in consumed)
            => /\ req'[r].pc = "rp_invalid"
               /\ req'[r].out = InvalidToken
               /\ users' = users]_vars

\* C1 witness: a replay of a consumed token has been refused.
C1_Witness ==
    \E r \in Slots : /\ req[r].pc = "rp_invalid"
                     /\ "consumed" \in req[r].note
                     /\ req[r].tok \in consumed

\* C2: a resetPassword is accepted exactly when some user's stored
\* resetPasswordToken is the hash of the presented token and the clock is
\* strictly before that user's resetPasswordExpire; otherwise it ends with the
\* invalid-token error (400) and leaves every user as it was.
C2_ExpiredTokenRefused ==
    [][\A r \in Slots :
        ResetLookup(r) =>
            LET live == \E e \in Emails : /\ users[e].exists
                                          /\ users[e].rpt = Hash(req'[r].tok)
                                          /\ now < users[e].rpe
            IN  /\ (req'[r].pc = "rp_found") <=> live
                /\ ~live => /\ req'[r].pc = "rp_invalid"
                            /\ req'[r].out = InvalidToken
                            /\ users' = users]_vars

\* C2 witness: a token whose hash was stored, presented at or after its
\* expiry, has been refused.
C2_Witness ==
    \E r \in Slots : /\ req[r].pc = "rp_invalid"
                     /\ req[r].note = {"expired"}

\* C3: when a forgotPassword whose mail failed completes, the user's
\* resetPasswordToken and resetPasswordExpire are both absent, the request
\* ends with the mail error (500) and nothing else, and the token it
\* generated is refused by every later resetPassword.
C3_MailFailureRollsBack ==
    [][/\ \A r \in Slots :
            (req[r].pc = "fp_catch" /\ req'[r].pc = "fp_mailerr")
                => /\ users'[req[r].email].rpt = Absent
                   /\ users'[req[r].email].rpe = Absent
                   /\ req'[r].out = <<[kind |-> "next", status |-> 500,
                                       data |-> "Email could not be sent",
                                       cookie |-> FALSE]>>
       /\ \A r \in Slots :
            (req[r].pc = "fp_mailing" /\ req'[r].pc # "fp_mailing"
                                      /\ req'[r].pc # "fp_ok")
                => req'[r].pc = "fp_catch" /\ req'[r].out = <<>>
       /\ \A r \in Slots :
            (ResetLookup(r) /\ req'[r].tok \in rolled)
                => req'[r].pc = "rp_invalid" /\ users' = users]_vars

\* C3 witness: a forgotPassword has ended with the mail error, and a later
\* resetPassword with its token has been refused.
C3_Witness ==
    \E r1, r2 \in Slots :
        /\ req[r1].pc = "fp_mailerr"
        /\ req[r2].pc = "rp_invalid"
        /\ req[r2].tok = req[r1].tok
        /\ "rolled" \in req[r2].note

\* C4: a login for an e-mail no user has and a login with a wrong password
\* end the same way: status 401, message 'Invalid credentials', no cookie and
\* no token.
C4_LoginFailuresIndistinguishable ==
    /\ \A r \in Slots :
        req[r].pc \in {"login_nouser", "login_badpw"}
            => req[r].out = <<[kind |-> "next", status |-> 401,
                               data |-> "Invalid credentials", cookie |-> FALSE]>>
    /\ \A r1, r2 \in Slots :
        (req[r1].pc = "login_nouser" /\ req[r2].pc = "login_badpw")
            => req[r1].out = req[r2].out

\* C4 witness: both failures are on record at once.
C4_Witness ==
    \E r1, r2 \in Slots : req[r1].pc = "login_nouser" /\ req[r2].pc = "login_badpw"

\* C5: every finished request has exactly one outcome, one response written
\* or one error raised; a forgotPassword whose mail was sent has the single
\* response 200 'Email sent'.
C5_ExactlyOneOutcome ==
    \A r \in Slots :
        req[r].pc \in Finals
            => /\ Len(req[r].out) = 1
               /\ req[r].pc = "fp_ok"
                    => req[r].out = <<[kind |-> "json", status |-> 200,
                                       data |-> "Email sent", cookie |-> FALSE]>>

\* C6: the save of the hashed reset token and its expiry comes before the
\* mail: a request whose mail dispatch has begun has had its token's hash
\* written to the store, and right after the save, before any mail, the user
\* record shows the pending reset.
C6_CommitBeforeMail ==
    /\ [](\A r \in Slots :
            req[r].pc \in {"fp_mailing", "fp_catch", "fp_ok", "fp_mailerr"}
                => req[r].tok \in stored)
    /\ [][\A r \in Slots :
            /\ (req'[r].pc = "fp_mailing" /\ req[r].pc # "fp_mailing")
                    => req[r].pc = "fp_saved" /\ req'[r].tok = req[r].tok
            /\ (req'[r].pc = "fp_token" /\ req[r].pc # "fp_token")
                    => /\ users' = users
                       /\ req'[r].exp = now + ResetExpire
            /\ (req'[r].pc = "fp_saved" /\ req[r].pc # "fp_saved")
                    => /\ users'[req'[r].email].rpt = Hash(req'[r].tok)
                       /\ req[r].pc = "fp_token"
                       /\ users'[req'[r].email].rpe = req[r].exp
                       /\ req[r].exp # Absent
                       /\ stored' = stored \cup {req'[r].tok}
            /\ stored' # stored
                    => \E e \in Emails, t \in Tokens :
                            /\ stored' = stored \cup {t}
                            /\ users'[e].rpt = Hash(t)]_vars

\* C6 witness: the token is committed, the mail not yet attempted.
C6_Witness ==
    \E r \in Slots : /\ req[r].pc = "fp_saved"
                     /\ users[req[r].email].rpt = Hash(req[r].tok)
                     /\ users[req[r].email].rpe # Absent

ResetFields(u) == <<u.rpt, u.rpe>>

\* C7: each user's resetPasswordToken and resetPasswordExpire are both
\* present or both absent; they become present only by the save of a
\* forgotPassword, and a successful resetPassword and the rollback after a
\* mail failure leave them absent.
C7_ResetFieldsPaired ==
    /\ [](\A e \in Emails : (users[e].rpt = Absent) <=> (users[e].rpe = Absent))
    /\ [][/\ \A e \in Emails :
                (ResetFields(users'[e]) # ResetFields(users[e])
                        /\ ResetFields(users'[e]) # <<Absent, Absent>>)
                    => \E r \in Slots : /\ req[r].pc = "fp_token"
                                        /\ req'[r].pc = "fp_saved"
                                        /\ req[r].email = e
          /\ \A r \in Slots :
                ((req[r].pc = "rp_found" /\ req'[r].pc = "rp_ok")
                        \/ (req[r].pc = "fp_catch" /\ req'[r].pc = "fp_mailerr"))
                    => ResetFields(users'[req[r].email]) = <<Absent, Absent>>]_vars

\* C7 witness: a reset is pending for one user after an earlier token was
\* consumed and another rolled back.
C7_Witness ==
    /\ \E e \in Emails : users[e].rpt # Absent /\ users[e].rpe # Absent
    /\ consumed # {}
    /\ rolled # {}

\* C8: an update, delete or photo upload by a user who is neither the owner
\* nor an admin ends with the not-authorized error (401) and leaves the
\* bootcamp store as it was.
C8_UnauthorizedLeavesStore ==
    [][\A r \in Slots :
        (breq[r].pc = "idle"
            /\ breq'[r].pc \in {"update_unauth", "delete_unauth", "photo_unauth"})
            => bootcamps' = bootcamps]_vars

\* C9: a user who is not an admin owns at most one bootcamp.
C9_OneBootcampPerPublisher ==
    \A u \in BcUsers :
        RoleOf(u) # "admin"
            => Cardinality({i \in BcIds : bootcamps[i].exists /\ bootcamps[i].user = u}) <= 1

\* C10: the rollback of a forgotPassword whose mail failed never removes a
\* reset token that another forgotPassword stored and mailed.
C10_RollbackSparesMailedToken ==
    [][\A r \in Slots :
        (req[r].pc = "fp_catch" /\ req'[r].pc = "fp_mailerr")
            => \A e \in Emails :
                (/\ users[e].rpt # Absent
                 /\ users[e].rpt # Hash(req[r].tok)
                 /\ \E t \in mailed : users[e].rpt = Hash(t))
                    => users'[e] = users[e]]_vars
====
